---- MODULE Spec2Model ----
(***************************************************************************)
(* State-machine model of the DIAL tool-calling agent:                    *)
(*   task/app.py     main()  - the interactive session loop               *)
(*   task/client.py  DialClient.get_completion / _process_tool_calls /    *)
(*                   _call_tool - the completion and tool orchestration   *)
(*   task/tools/...  the execute() methods of the registered tools        *)
(* The completion endpoint, the user service and the terminal are the     *)
(* environment: their answers are chosen nondeterministically from small  *)
(* sets.                                                                  *)
(***************************************************************************)
EXTENDS Integers, Sequences, FiniteSets, TLC

(***************************************************************************)
(* Bounds of the exploration.                                              *)
(***************************************************************************)
\* completion requests sent during one session
MaxRequests == 2
\* tool calls the model may put into one response
MaxCalls == 2

(***************************************************************************)
(* Values.                                                                 *)
(***************************************************************************)
\* Python's None in a string-typed slot
None == "None"
\* an Optional[list]: <<>> is None, <<l>> is the list l
NoList == <<>>
Some(l) == <<l>>

\* task/models/role.py
Role == [SYSTEM |-> "system", USER |-> "user", AI |-> "assistant", TOOL |-> "tool"]

\* task/prompts.py
SYSTEM_PROMPT == "You are a User Management Assistant"

\* Message(role, content, tool_calls, tool_call_id, name); absent keyword
\* arguments are None
Message(role, content, tool_calls, tool_call_id, name) ==
    [role |-> role, content |-> content, tool_calls |-> tool_calls,
     tool_call_id |-> tool_call_id, name |-> name]

\* Message.to_dict: role and content always; tool_call_id and name for a
\* tool-result message; tool_calls when the message carries them
to_dict(msg) ==
    IF msg.role = Role.TOOL
      THEN [role |-> msg.role, content |-> msg.content,
            tool_call_id |-> msg.tool_call_id, name |-> msg.name]
      ELSE IF msg.tool_calls # NoList
        THEN [role |-> msg.role, content |-> msg.content,
              tool_calls |-> msg.tool_calls[1]]
        ELSE [role |-> msg.role, content |-> msg.content]

\* Conversation.add_message: the message goes to the end of the list
add_message(conversation, msg) == Append(conversation, msg)

\* Conversation.get_messages: the conversation's own list, not a copy (what
\* get_completion appends to it is appended to the conversation)
get_messages(conversation) == conversation

\* [msg.to_dict() for msg in messages]
SerializeAll(msgs) == [k \in 1..Len(msgs) |-> to_dict(msgs[k])]

(***************************************************************************)
(* Tool-call arguments.                                                    *)
(***************************************************************************)
\* the keys an argument mapping of the explored payloads may hold
ArgKeys == {"id", "name", "surname", "email", "about_me", "request", "new_info"}

\* a JSON null stored under a key that is present
Null == "null"

\* an argument mapping: a key that is absent maps to None
NoArgs == [k \in ArgKeys |-> None]

\* arguments.get(key): None for an absent key and for a key holding null
get(arguments, key) == IF arguments[key] = Null THEN None ELSE arguments[key]

\* arguments.get(key, default): the default for an absent key only
get_default(arguments, key, default) ==
    IF arguments[key] = None THEN default
    ELSE IF arguments[key] = Null THEN None
    ELSE arguments[key]

\* the raw argument strings the model may send
ArgStrings == {"{\"id\": 42}", "{\"name\": \"A\"}", "{}", "{\"id\": 42"}

\* json.loads on those strings: the parsed mapping, or a JSONDecodeError
json_loads(s) ==
    CASE s = "{\"id\": 42}" -> [ok |-> TRUE, value |-> [NoArgs EXCEPT !["id"] = "42"]]
      [] s = "{\"name\": \"A\"}" -> [ok |-> TRUE, value |-> [NoArgs EXCEPT !["name"] = "A"]]
      [] s = "{}" -> [ok |-> TRUE, value |-> NoArgs]
      [] OTHER -> [ok |-> FALSE, value |-> NoArgs]

(***************************************************************************)
(* The tools (task/tools).  A tool is named by its class; svc is what the  *)
(* downstream service does if the tool reaches it: "ok" or "fail" (an      *)
(* exception or a non-success status).  Within one session the service is  *)
(* either up or down.                                                      *)
(***************************************************************************)
ServiceOutcomes == {"ok", "fail"}

\* what the downstream service or endpoint may do when a tool is run on its
\* own: besides "ok" and "fail" (the request raises), an answer with status
\* 200 and no choices, one whose message content is null, and an answer
\* with an error status
ToolServiceOutcomes ==
    ServiceOutcomes \cup {"ok_no_choices", "ok_null_content", "error_status"}

\* the service answers with a success status
ServiceUp(svc) == svc \in {"ok", "ok_no_choices", "ok_null_content"}

\* the end of a try body: a returned value, or an exception with its text,
\* and the calls made to the downstream service on the way
Return(value, calls) == [exc |-> None, value |-> value, calls |-> calls]
Raise(exc, text, calls) == [exc |-> exc, value |-> text, calls |-> calls]

\* int(user_id) succeeds on these values
IsIntLike(v) == v \in {"42", "7"}

\* the try body of GetUserByIdTool.execute
GetUserByIdTool_body(arguments, svc) ==
    LET user_id == get(arguments, "id") IN
    IF user_id = None
      THEN Return("Error: User ID is required but was not provided", <<>>)
      ELSE IF ~IsIntLike(user_id)
        THEN Raise("ValueError", "invalid literal for int()", <<>>)
        ELSE IF ServiceUp(svc)
          THEN Return("User " \o user_id \o ": Jane", <<"get_user">>)
          ELSE Raise("Exception", "service unavailable", <<"get_user">>)

\* GetUserByIdTool.execute with its except clauses
GetUserByIdTool_run(arguments, svc) ==
    LET body == GetUserByIdTool_body(arguments, svc) IN
    IF body.exc = None THEN body
    ELSE IF body.exc = "ValueError"
      THEN Return("Error: Invalid user ID format - " \o body.value, body.calls)
      ELSE Return("Error while retrieving user by ID: " \o body.value, body.calls)

\* GetUserByIdTool.execute
GetUserByIdTool_execute(arguments, svc) == GetUserByIdTool_run(arguments, svc).value

\* UserCreate.model_validate: name, surname, email and about_me are required
UserCreate_valid(arguments) ==
    \A k \in {"name", "surname", "email", "about_me"} : get(arguments, k) # None

\* a CreateUserTool that sends the data to the service and validates after
CreateUserTool_body_sendingFirst(arguments, svc) ==
    IF ~ServiceUp(svc)
      THEN Raise("Exception", "service unavailable", <<"add_user">>)
      ELSE IF ~UserCreate_valid(arguments)
        THEN Raise("ValueError", "validation error for UserCreate", <<"add_user">>)
        ELSE Return("User successfully added", <<"add_user">>)

\* the try body of CreateUserTool.execute
CreateUserTool_body(arguments, svc) ==
    IF ~UserCreate_valid(arguments)
      THEN Raise("ValueError", "validation error for UserCreate", <<>>)
      ELSE IF ServiceUp(svc)
        THEN Return("User successfully added", <<"add_user">>)
        ELSE Raise("Exception", "service unavailable", <<"add_user">>)

\* CreateUserTool.execute with its except clauses
CreateUserTool_run(arguments, svc) ==
    LET body == CreateUserTool_body(arguments, svc) IN
    IF body.exc = None THEN body
    ELSE IF body.exc = "ValueError"
      THEN Return("Error: Invalid user data - " \o body.value, body.calls)
      ELSE Return("Error while creating a new user: " \o body.value, body.calls)

\* CreateUserTool.execute
CreateUserTool_execute(arguments, svc) == CreateUserTool_run(arguments, svc).value

\* the try body of DeleteUserTool.execute
DeleteUserTool_body(arguments, svc) ==
    LET user_id == get(arguments, "id") IN
    IF user_id = None
      THEN Return("Error: User ID is required for deletion", <<>>)
      ELSE IF ~IsIntLike(user_id)
        THEN Raise("ValueError", "invalid literal for int()", <<>>)
        ELSE IF ServiceUp(svc)
          THEN Return("User successfully deleted", <<"delete_user">>)
          ELSE Raise("Exception", "service unavailable", <<"delete_user">>)

\* DeleteUserTool.execute with its except clause
DeleteUserTool_run(arguments, svc) ==
    LET body == DeleteUserTool_body(arguments, svc) IN
    IF body.exc = None THEN body
    ELSE Return("Error while deleting user by id: " \o body.value, body.calls)

\* DeleteUserTool.execute
DeleteUserTool_execute(arguments, svc) == DeleteUserTool_run(arguments, svc).value

\* the values of new_info that are JSON objects whose fields have the
\* types of UserUpdate
NewInfoObjects == {"{}", "{\"email\": \"ann@example.org\"}"}

\* UserUpdate.model_validate: an object, every field of which is optional
UserUpdate_valid(new_info) == new_info \in NewInfoObjects

\* the try body of UpdateUserTool.execute: new_info defaults to {}
UpdateUserTool_body(arguments, svc) ==
    LET user_id == get(arguments, "id") IN
    IF user_id = None
      THEN Return("Error: User ID is required", <<>>)
      ELSE IF ~IsIntLike(user_id)
        THEN Raise("ValueError", "invalid literal for int()", <<>>)
        ELSE LET new_info == get_default(arguments, "new_info", "{}") IN
             IF ~UserUpdate_valid(new_info)
               THEN Raise("ValidationError", "validation error for UserUpdate", <<>>)
               ELSE IF ServiceUp(svc)
                 THEN Return("User successfully updated", <<"update_user">>)
                 ELSE Raise("Exception", "service unavailable", <<"update_user">>)

\* UpdateUserTool.execute with its except clause
UpdateUserTool_run(arguments, svc) ==
    LET body == UpdateUserTool_body(arguments, svc) IN
    IF body.exc = None THEN body
    ELSE Return("Error while updating user: " \o body.value, body.calls)

\* UpdateUserTool.execute
UpdateUserTool_execute(arguments, svc) == UpdateUserTool_run(arguments, svc).value

\* the try body of SearchUsersTool.execute: search_users(**arguments)
\* accepts the keys name, surname and email
SearchUsersTool_body(arguments, svc) ==
    IF \E k \in ArgKeys \ {"name", "surname", "email"} : arguments[k] # None
      THEN Raise("TypeError", "unexpected keyword argument", <<>>)
      ELSE IF ServiceUp(svc)
        THEN Return("Found 1 users", <<"search_users">>)
        ELSE Raise("Exception", "service unavailable", <<"search_users">>)

\* SearchUsersTool.execute with its except clauses
SearchUsersTool_run(arguments, svc) ==
    LET body == SearchUsersTool_body(arguments, svc) IN
    IF body.exc = None THEN body
    ELSE IF body.exc = "TypeError"
      THEN Return("Error: Invalid search parameters - " \o body.value, body.calls)
      ELSE Return("Error while searching users: " \o body.value, body.calls)

\* SearchUsersTool.execute
SearchUsersTool_execute(arguments, svc) == SearchUsersTool_run(arguments, svc).value

\* the try body of WebSearchTool.execute: arguments["request"] raises
\* KeyError for an absent key; message.get("content", "No results found")
\* is None when the content is present and null
WebSearchTool_body(arguments, svc) ==
    IF arguments["request"] = None
      THEN Raise("KeyError", "'request'", <<>>)
      ELSE CASE svc = "ok" -> Return("Search results", <<"post">>)
             [] svc = "ok_no_choices" -> Return("No search results found", <<"post">>)
             [] svc = "ok_null_content" -> Return(None, <<"post">>)
             [] svc = "error_status" ->
                    Return("Error: 500 Internal Server Error", <<"post">>)
             [] OTHER -> Raise("ConnectionError", "connection refused", <<"post">>)

\* WebSearchTool.execute with its except clause
WebSearchTool_run(arguments, svc) ==
    LET body == WebSearchTool_body(arguments, svc) IN
    IF body.exc = None THEN body
    ELSE Return("Error during web search: " \o body.value, body.calls)

\* WebSearchTool.execute
WebSearchTool_execute(arguments, svc) == WebSearchTool_run(arguments, svc).value

\* tool.execute(arguments) with the calls it makes, by the class of the tool
run(tool, arguments, svc) ==
    CASE tool = "GetUserByIdTool" -> GetUserByIdTool_run(arguments, svc)
      [] tool = "CreateUserTool" -> CreateUserTool_run(arguments, svc)
      [] tool = "DeleteUserTool" -> DeleteUserTool_run(arguments, svc)
      [] tool = "UpdateUserTool" -> UpdateUserTool_run(arguments, svc)
      [] tool = "SearchUsersTool" -> SearchUsersTool_run(arguments, svc)
      [] tool = "WebSearchTool" -> WebSearchTool_run(arguments, svc)

\* tool.execute(arguments), by the class of the tool
execute(tool, arguments, svc) ==
    CASE tool = "GetUserByIdTool" -> GetUserByIdTool_execute(arguments, svc)
      [] tool = "CreateUserTool" -> CreateUserTool_execute(arguments, svc)
      [] tool = "DeleteUserTool" -> DeleteUserTool_execute(arguments, svc)
      [] tool = "UpdateUserTool" -> UpdateUserTool_execute(arguments, svc)
      [] tool = "SearchUsersTool" -> SearchUsersTool_execute(arguments, svc)
      [] tool = "WebSearchTool" -> WebSearchTool_execute(arguments, svc)

\* tool.name
tool_name(tool) ==
    CASE tool = "GetUserByIdTool" -> "get_user_by_id"
      [] tool = "CreateUserTool" -> "add_user"
      [] tool = "DeleteUserTool" -> "delete_users"
      [] tool = "UpdateUserTool" -> "update_user"
      [] tool = "SearchUsersTool" -> "search_users"
      [] tool = "WebSearchTool" -> "web_search_tool"

\* the tools main() hands to DialClient
tools == <<"WebSearchTool", "GetUserByIdTool", "SearchUsersTool",
           "CreateUserTool", "UpdateUserTool", "DeleteUserTool">>

\* DialClient.__init__: self.__tools_dict[tool.name] = tool, in list order
\* (a later tool of the same name replaces an earlier one)
tools_dict_of(tool_list) ==
    [n \in {tool_name(tool_list[k]) : k \in 1..Len(tool_list)} |->
        LET last == CHOOSE k \in 1..Len(tool_list) :
                       /\ tool_name(tool_list[k]) = n
                       /\ \A j \in (k+1)..Len(tool_list) : tool_name(tool_list[j]) # n
        IN  tool_list[last]]

\* DialClient.__init__: self.__tools.append(tool.schema) for every tool of
\* the list (a schema is represented by the name it advertises)
tools_schemas_of(tool_list) == [k \in 1..Len(tool_list) |-> tool_name(tool_list[k])]

\* the registry of the session's client
tools_dict == tools_dict_of(tools)

\* the schemas the session's client advertises
tools_schemas == tools_schemas_of(tools)

\* a dispatch that falls back to the first tool for a name it does not know
_call_tool_fallback(function_name, arguments, svc) ==
    LET tool == IF function_name \in DOMAIN tools_dict
                  THEN tools_dict[function_name] ELSE tools[1]
        result == execute(tool, arguments, svc)
    IN  [result |-> result,
         ran |-> <<[tool |-> tool, arguments |-> arguments, result |-> result]>>]

\* DialClient._call_tool: the returned string and the executions it made
\* (tool, arguments, result), at most one
_call_tool(function_name, arguments, svc) ==
    IF function_name \in DOMAIN tools_dict
      THEN LET tool == tools_dict[function_name]
               result == execute(tool, arguments, svc)
           IN  [result |-> result,
                ran |-> <<[tool |-> tool, arguments |-> arguments, result |-> result]>>]
      ELSE [result |-> "Unknown function: " \o function_name, ran |-> <<>>]

(***************************************************************************)
(* The environment's inputs.                                               *)
(***************************************************************************)
\* the tool-call requests {id, function: {name, arguments}} the model may
\* put into a response
ToolCallRequests ==
    { [id |-> "call_1", name |-> "get_user_by_id", arguments |-> "{\"id\": 42}"],
      [id |-> "call_2", name |-> "convert_currency", arguments |-> "{}"],
      [id |-> "call_3", name |-> "get_user_by_id", arguments |-> "{\"id\": 42"] }

\* the batches of at most MaxCalls requests
Batches == UNION { [1..n -> ToolCallRequests] : n \in 0..MaxCalls }

\* the answers of the completion endpoint: a non-success status, a final
\* answer (with or without tool_calls in the message) or a tool request
\* (whose message may lack the tool_calls list)
Responses ==
    { [status |-> 500, finish_reason |-> None, content |-> "", tool_calls |-> NoList] }
    \cup
    { [status |-> 200, finish_reason |-> "stop", content |-> "Hello", tool_calls |-> tc] :
        tc \in {NoList} \cup {Some(b) : b \in {b2 \in Batches : Len(b2) = 1 /\ b2[1].id = "call_1"}} }
    \cup
    { [status |-> 200, finish_reason |-> "tool_calls", content |-> "", tool_calls |-> tc] :
        tc \in {NoList} \cup {Some(b) : b \in Batches} }

\* the lines the user may type
UserInputs == {"exit", " QUIT ", "Bye", "\tstop ", "", "  ", "Add Ann as a new user"}

\* the characters str.strip removes at both ends
IsSpace(c) == c \in {" ", "\t", "\n", "\r"}

RECURSIVE lstrip(_), rstrip(_)
lstrip(s) ==
    IF s # "" /\ IsSpace(SubSeq(s, 1, 1)) THEN lstrip(SubSeq(s, 2, Len(s))) ELSE s

rstrip(s) ==
    IF s # "" /\ IsSpace(SubSeq(s, Len(s), Len(s)))
      THEN rstrip(SubSeq(s, 1, Len(s) - 1)) ELSE s

\* str.strip
strip(s) == rstrip(lstrip(s))

UpperCase == "ABCDEFGHIJKLMNOPQRSTUVWXYZ"
LowerCase == "abcdefghijklmnopqrstuvwxyz"

\* the lower-case form of one character
lower_char(c) ==
    IF \E k \in 1..Len(UpperCase) : SubSeq(UpperCase, k, k) = c
      THEN LET k == CHOOSE j \in 1..Len(UpperCase) : SubSeq(UpperCase, j, j) = c
           IN  SubSeq(LowerCase, k, k)
      ELSE c

\* a comparison that forgets to fold the case
lower_keeping_case(s) == s

\* str.lower
RECURSIVE lower(_)
lower(s) ==
    IF s = "" THEN "" ELSE lower_char(SubSeq(s, 1, 1)) \o lower(SubSeq(s, 2, Len(s)))

\* input("> ").strip() for each line the user may type, computed once
stripped == [typed \in UserInputs |-> strip(typed)]

\* user_input.lower() for each stripped line, computed once
lowered == [user_input \in {stripped[typed] : typed \in UserInputs} |-> lower(user_input)]

\* the values os.getenv('DIAL_API_KEY') may give: None when the variable is
\* absent
EnvKeys == {None, "", "dial-api-key"}

\* a check that lets every key through
truthy_unchecked(v) == TRUE

\* the truth value of an Optional[str]: "not api_key" is its negation
truthy(v) == v # None /\ v # ""

(***************************************************************************)
(* State.                                                                  *)
(***************************************************************************)
VARIABLES
    messages,       \* the conversation's message list, which is the list
                    \* object get_completion receives and appends to
    pc,             \* where control is: "input", "call", "await", "tools",
                    \* "returned", "raised", "ended"
    requests,       \* the message lists of the completion requests sent
    responses,      \* the responses received, one per request answered
    ai_response,    \* get_completion's ai_response of the last response
    tool_messages,  \* _process_tool_calls's tool_messages
    toolLog,        \* the tool executions made: (tool, arguments, result)
    exception,      \* the exception in flight, None if none
    out,            \* the last thing the session loop displayed
    entry,          \* the message list at entry of the running get_completion
    turnStart,      \* the message list when the running turn read its input
    reqAtCall,      \* number of requests sent before the driver's call
    service,        \* what the tools' downstream service does in this
                    \* session: it is up ("ok") or down ("fail")
    API_KEY,        \* os.getenv('DIAL_API_KEY')
    exit_status,    \* the exit status of the process, Running until it ends
    probe           \* the tool or registry operation under test when one is
                    \* exercised on its own, NoProbe in a session

vars == <<messages, pc, requests, responses, ai_response, tool_messages,
          toolLog, exception, out, entry, turnStart, reqAtCall, service, API_KEY, exit_status, probe>>

\* the process has not ended
Running == <<>>

\* the process has ended with this status
Exited(code) == <<code>>

\* no tool or registry operation is under test
NoProbe == [op |-> "none"]

\* the process starts: API_KEY = os.getenv('DIAL_API_KEY')
Init ==
    /\ messages = <<>>
    /\ pc = "start"
    /\ API_KEY \in EnvKeys
    /\ exit_status = Running
    /\ probe = NoProbe
    /\ requests = <<>>
    /\ responses = <<>>
    /\ ai_response = Message(Role.AI, "", NoList, None, None)
    /\ tool_messages = <<>>
    /\ toolLog = <<>>
    /\ exception = None
    /\ out = ""
    /\ entry = <<>>
    /\ turnStart = <<>>
    /\ reqAtCall = 0
    /\ service \in ServiceOutcomes

(***************************************************************************)
(* Start of the program, task/app.py.                                      *)
(***************************************************************************)
\* DialClient.__init__, step 1: raise ValueError if not api_key
DialClient_init_ok(api_key) == truthy(api_key)

\* the __main__ block and main() up to the session loop: exit(1) without a
\* key; otherwise the client is built (an uncaught ValueError ends the
\* process with status 1) and the conversation gets the system prompt
Start ==
    /\ pc = "start"
    /\ IF ~truthy(API_KEY)
         THEN /\ out' = "Error: DIAL_API_KEY environment variable is not set!"
              /\ exit_status' = Exited(1)
              /\ pc' = "exited"
              /\ UNCHANGED messages
         ELSE IF ~DialClient_init_ok(API_KEY)
           THEN /\ out' = "ValueError: API key is required for DIAL client"
                /\ exit_status' = Exited(1)
                /\ pc' = "exited"
                /\ UNCHANGED messages
           ELSE /\ messages' = add_message(<<>>, Message(Role.SYSTEM, SYSTEM_PROMPT, NoList, None, None))
                /\ out' = "AI User Management Assistant Ready!"
                /\ pc' = "input"
                /\ UNCHANGED exit_status
    /\ UNCHANGED <<requests, responses, ai_response, tool_messages, toolLog,
                   exception, entry, turnStart, reqAtCall, service, API_KEY,
                   probe>>

(***************************************************************************)
(* The session loop, task/app.py main().                                   *)
(***************************************************************************)
\* one pass of the loop up to the call of get_completion
ReadLine(typed) ==
    /\ pc = "input"
    /\ LET user_input == stripped[typed] IN
       IF lowered[user_input] \in {"exit", "quit", "bye", "stop"}
         THEN /\ pc' = "ended"
              /\ out' = "Goodbye!"
              /\ exit_status' = Exited(0)
              /\ UNCHANGED <<messages, turnStart, reqAtCall>>
         ELSE IF user_input = ""
           THEN /\ pc' = "input"
                /\ UNCHANGED <<messages, out, turnStart, reqAtCall, exit_status>>
           ELSE /\ Len(requests) < MaxRequests
                /\ messages' = get_messages(
                      add_message(messages, Message(Role.USER, user_input, NoList, None, None)))
                /\ out' = "Thinking..."
                /\ turnStart' = messages
                /\ reqAtCall' = Len(requests)
                /\ pc' = "call"
                /\ UNCHANGED exit_status
    /\ UNCHANGED <<requests, responses, ai_response, tool_messages, toolLog,
                   exception, entry, service, API_KEY, probe>>

\* one pass of the loop for any line the user may type
ReadInput == \E typed \in UserInputs : ReadLine(typed)

\* a driver that prints the answer and does not keep it
DriverAppend_displayingOnly ==
    /\ pc = "returned"
    /\ out' = "Assistant: " \o ai_response.content
    /\ pc' = "input"
    /\ UNCHANGED <<messages, requests, responses, ai_response, tool_messages,
                   toolLog, exception, entry, turnStart, reqAtCall, service,
                   API_KEY, exit_status, probe>>

\* get_completion returned: the driver appends and prints the answer
DriverAppend ==
    /\ pc = "returned"
    /\ messages' = add_message(messages, ai_response)
    /\ out' = "Assistant: " \o ai_response.content
    /\ pc' = "input"
    /\ UNCHANGED <<requests, responses, ai_response, tool_messages, toolLog,
                   exception, entry, turnStart, reqAtCall, service, API_KEY, exit_status, probe>>

\* a handler that takes the turn's messages back before it goes on
DriverCatch_rollingBack ==
    /\ pc = "raised"
    /\ messages' = turnStart
    /\ out' = "Error: " \o exception
    /\ exception' = None
    /\ pc' = "input"
    /\ UNCHANGED <<requests, responses, ai_response, tool_messages,
                   toolLog, entry, turnStart, reqAtCall, service, API_KEY, exit_status, probe>>

\* a loop that lets the exception through: the session ends
DriverCatch_propagating ==
    /\ pc = "raised"
    /\ pc' = "ended"
    /\ UNCHANGED <<messages, requests, responses, ai_response, tool_messages,
                   toolLog, exception, out, entry, turnStart, reqAtCall, service, API_KEY, exit_status, probe>>

\* except Exception as e: print the error and go on with the loop
DriverCatch ==
    /\ pc = "raised"
    /\ out' = "Error: " \o exception
    /\ exception' = None
    /\ pc' = "input"
    /\ UNCHANGED <<messages, requests, responses, ai_response, tool_messages,
                   toolLog, entry, turnStart, reqAtCall, service, API_KEY, exit_status, probe>>

\* except KeyboardInterrupt: Ctrl+C while the loop waits for the terminal,
\* the endpoint or a tool
KeyboardInterrupt ==
    /\ pc \in {"input", "await", "tools"}
    /\ out' = "Interrupted. Goodbye!"
    /\ exit_status' = Exited(0)
    /\ pc' = "ended"
    /\ UNCHANGED <<messages, requests, responses, ai_response, tool_messages,
                   toolLog, exception, entry, turnStart, reqAtCall, service,
                   API_KEY, probe>>

(***************************************************************************)
(* DialClient.get_completion, task/client.py.                              *)
(***************************************************************************)
\* entry of get_completion up to requests.post
PostRequest ==
    /\ pc = "call"
    /\ Len(requests) < MaxRequests
    /\ requests' = Append(requests, SerializeAll(messages))
    /\ entry' = messages
    /\ pc' = "await"
    /\ UNCHANGED <<messages, responses, ai_response, tool_messages, toolLog,
                   exception, out, turnStart, reqAtCall, service, API_KEY, exit_status, probe>>

\* a get_completion that sends the request again after a failure
OnFailure_retrying(resp) ==
    /\ pc' = "call"
    /\ UNCHANGED <<messages, ai_response, tool_messages, exception>>

\* status_code != 200: raise Exception("API request failed ...")
OnFailure(resp) ==
    /\ exception' = "API request failed with status 500"
    /\ pc' = "raised"
    /\ UNCHANGED <<messages, ai_response, tool_messages>>

\* a get_completion that also appends the message it returns
OnFinal_appending(resp) ==
    /\ ai_response' = Message(Role.AI, resp.content, resp.tool_calls, None, None)
    /\ messages' = Append(messages, ai_response')
    /\ pc' = "returned"
    /\ UNCHANGED <<tool_messages, exception>>

\* any other finish_reason: return ai_response
OnFinal(resp) ==
    /\ ai_response' = Message(Role.AI, resp.content, resp.tool_calls, None, None)
    /\ pc' = "returned"
    /\ UNCHANGED <<messages, tool_messages, exception>>

\* a get_completion that forgets to append the assistant message that
\* carries the tool requests
OnToolCalls_notAppending(resp) ==
    /\ ai_response' = Message(Role.AI, resp.content, resp.tool_calls, None, None)
    /\ tool_messages' = <<>>
    /\ pc' = "tools"
    /\ UNCHANGED <<messages, exception>>

\* a get_completion with a guard on the number of tool rounds: the answer
\* of the second request of a call is returned whatever its finish reason
OnToolCalls_bounded(resp) ==
    IF Len(requests) - reqAtCall >= 2
      THEN OnFinal(resp)
      ELSE /\ ai_response' = Message(Role.AI, resp.content, resp.tool_calls, None, None)
           /\ messages' = Append(messages, ai_response')
           /\ tool_messages' = <<>>
           /\ pc' = "tools"
           /\ UNCHANGED exception

\* finish_reason == "tool_calls": append the assistant message and enter
\* _process_tool_calls
OnToolCalls(resp) ==
    /\ ai_response' = Message(Role.AI, resp.content, resp.tool_calls, None, None)
    /\ messages' = Append(messages, ai_response')
    /\ tool_messages' = <<>>
    /\ pc' = "tools"
    /\ UNCHANGED exception

\* the response arrives: lines 104-156
ReceiveResponse ==
    /\ pc = "await"
    /\ \E resp \in Responses :
         /\ responses' = Append(responses, resp)
         /\ IF resp.status # 200
              THEN OnFailure(resp)
              ELSE IF resp.finish_reason = "tool_calls"
                THEN OnToolCalls(resp)
                ELSE OnFinal(resp)
    /\ UNCHANGED <<requests, toolLog, out, entry, turnStart, reqAtCall, service, API_KEY, exit_status, probe>>

(***************************************************************************)
(* DialClient._process_tool_calls, task/client.py.                         *)
(***************************************************************************)
\* the list _process_tool_calls iterates over (defined when tool_calls is
\* not None)
Calls == ai_response.tool_calls[1]

\* Message(role=Role.TOOL, name=function_name, tool_call_id=tool_call_id,
\*         content=tool_execution_result)
ToolMessage(tool_call, result) ==
    Message(Role.TOOL, result, NoList, tool_call.id, tool_call.name)

\* json.loads(arguments_str) raises: nothing is caught on the way out
OnDecodeError(tool_call) ==
    /\ exception' = "JSONDecodeError"
    /\ pc' = "raised"
    /\ UNCHANGED <<tool_messages, toolLog>>

\* one pass of the for loop: steps 1-7 for one tool call
OnToolCall(tool_call, svc) ==
    LET parsed == json_loads(tool_call.arguments) IN
    IF ~parsed.ok
      THEN OnDecodeError(tool_call)
      ELSE LET call == _call_tool(tool_call.name, parsed.value, svc) IN
           /\ tool_messages' = Append(tool_messages, ToolMessage(tool_call, call.result))
           /\ toolLog' = toolLog \o call.ran
           /\ pc' = "tools"
           /\ UNCHANGED exception

\* a tool step that appends each tool result to the conversation as soon as
\* it is produced
ProcessToolCall_appendingEach ==
    /\ pc = "tools"
    /\ IF ai_response.tool_calls = NoList
         THEN /\ exception' = "TypeError"
              /\ pc' = "raised"
              /\ UNCHANGED <<tool_messages, toolLog, messages>>
         ELSE /\ Len(tool_messages) < Len(Calls)
              /\ OnToolCall(Calls[Len(tool_messages) + 1], service)
              /\ messages' = IF Len(tool_messages') > Len(tool_messages)
                                THEN Append(messages, tool_messages'[Len(tool_messages')])
                                ELSE messages
    /\ UNCHANGED <<requests, responses, ai_response, out, entry,
                   turnStart, reqAtCall, service, API_KEY, exit_status, probe>>

\* the for loop, one tool call at a time; iterating over None raises
ProcessToolCall ==
    /\ pc = "tools"
    /\ IF ai_response.tool_calls = NoList
         THEN /\ exception' = "TypeError"
              /\ pc' = "raised"
              /\ UNCHANGED <<tool_messages, toolLog>>
         ELSE /\ Len(tool_messages) < Len(Calls)
              /\ OnToolCall(Calls[Len(tool_messages) + 1], service)
    /\ UNCHANGED <<messages, requests, responses, ai_response, out, entry,
                   turnStart, reqAtCall, service, API_KEY, exit_status, probe>>

\* a get_completion that puts the tool results in front of the conversation
Extend_prepending(msgs, tool_msgs) == tool_msgs \o msgs

\* messages.extend(tool_messages)
Extend(msgs, tool_msgs) == msgs \o tool_msgs

\* _process_tool_calls returns; get_completion extends the conversation and
\* calls itself
ExtendAndRecurse ==
    /\ pc = "tools"
    /\ ai_response.tool_calls # NoList
    /\ Len(tool_messages) = Len(Calls)
    /\ messages' = Extend(messages, tool_messages)
    /\ pc' = "call"
    /\ UNCHANGED <<requests, responses, ai_response, tool_messages, toolLog,
                   exception, out, entry, turnStart, reqAtCall, service, API_KEY, exit_status, probe>>

Next ==
    \/ Start
    \/ ReadInput
    \/ DriverAppend
    \/ DriverCatch
    \/ KeyboardInterrupt
    \/ PostRequest
    \/ ReceiveResponse
    \/ ProcessToolCall
    \/ ExtendAndRecurse

Spec == Init /\ [][Next]_vars

(***************************************************************************)
(* The tools and the registry on their own: one tool is executed on one    *)
(* argument mapping against one behaviour of its service, or one client is *)
(* built from one list of tools.                                           *)
(***************************************************************************)
\* the longest list of tools a client is built from
MaxTools == 2

\* the tool classes of the repository
ToolClasses == {tools[k] : k \in 1..Len(tools)}

\* the lists of tools a client may be given, repetitions included
ToolLists == UNION { [1..n -> ToolClasses] : n \in 0..MaxTools }

\* the argument mappings the tools are run on
ToolArguments ==
    LET user == [NoArgs EXCEPT !["name"] = "A", !["surname"] = "B",
                               !["email"] = "a@example.org", !["about_me"] = "hi"]
    IN  { NoArgs,
          [NoArgs EXCEPT !["id"] = "42"],
          [NoArgs EXCEPT !["id"] = "abc"],
          [NoArgs EXCEPT !["id"] = Null],
          [NoArgs EXCEPT !["name"] = "A"],
          user,
          [user EXCEPT !["email"] = Null],
          [NoArgs EXCEPT !["id"] = "42", !["new_info"] = "{\"email\": \"ann@example.org\"}"],
          [NoArgs EXCEPT !["id"] = "42", !["new_info"] = "abc"],
          [NoArgs EXCEPT !["id"] = "42", !["new_info"] = Null],
          [NoArgs EXCEPT !["new_info"] = "{}"],
          [NoArgs EXCEPT !["request"] = "weather"],
          [NoArgs EXCEPT !["request"] = Null] }

\* tool.execute(arguments) for one tool, one mapping and one behaviour of
\* the service
ExecuteTool ==
    /\ pc = "start"
    /\ probe = NoProbe
    /\ \E tool \in ToolClasses, arguments \in ToolArguments, svc \in ToolServiceOutcomes :
         probe' = [op |-> "execute", tool |-> tool, arguments |-> arguments,
                   svc |-> svc, outcome |-> run(tool, arguments, svc)]
    /\ UNCHANGED <<messages, pc, requests, responses, ai_response, tool_messages,
                   toolLog, exception, out, entry, turnStart, reqAtCall, service,
                   API_KEY, exit_status>>

\* DialClient(endpoint, deployment_name, api_key, tools) for one list of
\* tools: steps 3 and 4 of __init__
RegisterTools ==
    /\ pc = "start"
    /\ probe = NoProbe
    /\ DialClient_init_ok(API_KEY)
    /\ \E tool_list \in ToolLists :
         probe' = [op |-> "register", tools |-> tool_list,
                   schemas |-> tools_schemas_of(tool_list),
                   dict |-> tools_dict_of(tool_list)]
    /\ UNCHANGED <<messages, pc, requests, responses, ai_response, tool_messages,
                   toolLog, exception, out, entry, turnStart, reqAtCall, service,
                   API_KEY, exit_status>>

ToolNext ==
    \/ ExecuteTool
    \/ RegisterTools

ToolSpec == Init /\ [][ToolNext]_vars

(***************************************************************************)
(* Helpers of the properties.                                              *)
(***************************************************************************)
Last(q) == q[Len(q)]

IsPrefix(p, q) == Len(p) <= Len(q) /\ SubSeq(q, 1, Len(p)) = p

\* sub occurs in the string s
Contains(s, sub) ==
    \E k \in 1..(Len(s) - Len(sub) + 1) : SubSeq(s, k, k + Len(sub) - 1) = sub

\* the assistant message get_completion builds from a response
AssistantOf(resp) == Message(Role.AI, resp.content, resp.tool_calls, None, None)

\* the exception text of a failed completion request
ApiError == "API request failed with status 500"

\* the tool calls a response lists (none when the list is missing)
CallsOf(resp) == IF resp.tool_calls = NoList THEN <<>> ELSE resp.tool_calls[1]

(***************************************************************************)
(* C1: when the response has a finish reason other than "tool_calls",      *)
(* get_completion returns the assistant message built from that response   *)
(* and the conversation is exactly the one of call entry: the returned     *)
(* message is not appended.                                                *)
(***************************************************************************)
C1_FinalMessageNotAppended ==
    [][ ( /\ Len(responses') = Len(responses) + 1
          /\ Last(responses').status = 200
          /\ Last(responses').finish_reason # "tool_calls" )
        => ( /\ pc' = "returned"
             /\ ai_response' = AssistantOf(Last(responses'))
             /\ messages' = entry
             /\ exception' = None ) ]_vars

C1_Witness ==
    /\ pc = "returned"
    /\ ai_response.content = "Hello"
    /\ Len(messages) > 2
    /\ messages = entry

(***************************************************************************)
(* C2 (as claimed): whenever _process_tool_calls has ended for a batch,    *)
(* it has produced exactly one tool-result message per request, in request *)
(* order, the i-th carrying the id and the function name of the i-th       *)
(* request.                                                                *)
(***************************************************************************)
RoundEnded ==
    /\ ai_response.tool_calls # NoList
    /\ \/ pc = "call" /\ Len(requests) > reqAtCall
       \/ pc = "raised" /\ exception = "JSONDecodeError"

C2_OneResultPerRequest ==
    RoundEnded =>
        /\ Len(tool_messages) = Len(Calls)
        /\ \A k \in 1..Len(Calls) :
             /\ tool_messages[k].role = Role.TOOL
             /\ tool_messages[k].tool_call_id = Calls[k].id
             /\ tool_messages[k].name = Calls[k].name

(***************************************************************************)
(* C3 (as claimed): processing a tool call whose argument string is        *)
(* malformed JSON adds a tool-result message with an error-describing      *)
(* content and throws nothing; the loop goes on with the next tool call.   *)
(***************************************************************************)
NextCallMalformed ==
    /\ pc = "tools"
    /\ ai_response.tool_calls # NoList
    /\ Len(tool_messages) < Len(Calls)
    /\ ~json_loads(Calls[Len(tool_messages) + 1].arguments).ok

C3_MalformedArgumentsBecomeResult ==
    [][ (NextCallMalformed /\ pc' # "ended")
        => ( /\ pc' = "tools"
             /\ exception' = None
             /\ Len(tool_messages') = Len(tool_messages) + 1
             /\ Contains(Last(tool_messages').content, "Error") ) ]_vars

(***************************************************************************)
(* C4: every tool-result message of the conversation carries the id of a   *)
(* tool call listed by an assistant message earlier in the conversation.   *)
(***************************************************************************)
C4_ToolResultHasEarlierRequest ==
    \A k \in 1..Len(messages) :
        messages[k].role = Role.TOOL =>
            \E j \in 1..(k - 1) :
                /\ messages[j].role = Role.AI
                /\ messages[j].tool_calls # NoList
                /\ \E c \in 1..Len(messages[j].tool_calls[1]) :
                     messages[j].tool_calls[1][c].id = messages[k].tool_call_id

C4_Witness ==
    \E k \in 1..Len(messages) :
        messages[k].role = Role.TOOL /\ messages[k].tool_call_id = "call_2"

(***************************************************************************)
(* C5: _call_tool never raises; for a registered name it runs the tool     *)
(* registered under that name exactly once with the given arguments and    *)
(* returns its result; for any other name it runs no tool and returns a    *)
(* string containing "Unknown function".                                   *)
(***************************************************************************)
C5_Dispatch ==
    [][ ( /\ pc = "tools"
          /\ ai_response.tool_calls # NoList
          /\ Len(tool_messages) < Len(Calls)
          /\ json_loads(Calls[Len(tool_messages) + 1].arguments).ok
          /\ pc' # "ended" )
        => LET c == Calls[Len(tool_messages) + 1]
               arguments == json_loads(c.arguments).value
               registered == {tools[k] : k \in {j \in 1..Len(tools) : tool_name(tools[j]) = c.name}}
           IN  /\ pc' = "tools"
               /\ exception' = None
               /\ Len(tool_messages') = Len(tool_messages) + 1
               /\ IF registered # {}
                    THEN /\ Len(toolLog') = Len(toolLog) + 1
                         /\ SubSeq(toolLog', 1, Len(toolLog)) = toolLog
                         /\ Last(toolLog').tool \in registered
                         /\ Last(toolLog').arguments = arguments
                         /\ Last(tool_messages').content = Last(toolLog').result
                    ELSE /\ toolLog' = toolLog
                         /\ Contains(Last(tool_messages').content, "Unknown function") ]_vars

C5_Witness ==
    /\ Len(toolLog) = 1
    /\ toolLog[1].tool = "GetUserByIdTool"
    /\ Len(tool_messages) = 2
    /\ tool_messages[1].content = toolLog[1].result
    /\ Contains(tool_messages[2].content, "Unknown function")

(***************************************************************************)
(* C6: a non-success response makes get_completion raise to its caller     *)
(* and do nothing more: no further request (no retry), no tool execution   *)
(* and no appended message follow the failed response.                     *)
(***************************************************************************)
C6_FailureIsFatalForTheCall ==
    [][ /\ ( /\ Len(responses') = Len(responses) + 1
             /\ Last(responses').status # 200 )
           => ( /\ pc' = "raised"
                /\ exception' = ApiError
                /\ UNCHANGED <<messages, requests, toolLog>> )
        /\ (pc = "raised" /\ exception = ApiError)
           => ( /\ pc' = "input"
                /\ UNCHANGED <<messages, requests, toolLog>> ) ]_vars

C6_Witness ==
    /\ pc = "raised"
    /\ exception = ApiError
    /\ Last(responses).status = 500
    /\ Len(toolLog) > 0

(***************************************************************************)
(* C7 (as claimed): once a failed completion request has been reported,    *)
(* the conversation holds the same messages as before the turn started.    *)
(***************************************************************************)
FailureReported == pc = "input" /\ out = "Error: " \o ApiError

C7_ConversationAsBeforeTurn ==
    FailureReported => messages = turnStart

(***************************************************************************)
(* C7 (amended): a failed completion request is propagated to the driver   *)
(* and reported, and nothing is appended after it nor taken back: the      *)
(* conversation is the message list of the failed request, that is the     *)
(* messages from before the turn, the turn's user message and the          *)
(* assistant and tool-result messages of the tool rounds completed before  *)
(* the failure.                                                            *)
(***************************************************************************)
C7_ConversationAsSentInFailedRequest ==
    ((pc = "raised" /\ exception = ApiError) \/ FailureReported) =>
        /\ Last(responses).status # 200
        /\ Len(responses) = Len(requests)
        /\ SerializeAll(messages) = Last(requests)
        /\ messages = entry
        /\ IsPrefix(turnStart, messages)
        /\ Len(messages) > Len(turnStart)
        /\ messages[Len(turnStart) + 1].role = Role.USER
        /\ \A k \in (Len(turnStart) + 2)..Len(messages) :
             messages[k].role \in {Role.AI, Role.TOOL}
        /\ messages[Len(messages)].tool_calls # NoList
           \/ messages[Len(messages)].role # Role.AI

C7_Witness ==
    /\ FailureReported
    /\ Len(messages) > Len(turnStart) + 1
    /\ messages[Len(messages)].role = Role.TOOL

(***************************************************************************)
(* C8 (as claimed): after a response with finish reason "tool_calls", the  *)
(* next completion request carries the previous request's messages, then   *)
(* the assistant message with its tool_calls, then one tool-result message *)
(* per tool call in request order, and nothing else.                       *)
(***************************************************************************)
C8_NextRequestHoldsRound ==
    \A r \in 1..(Len(requests) - 1) :
        ( /\ responses[r].status = 200
          /\ responses[r].finish_reason = "tool_calls"
          /\ responses[r].tool_calls # NoList ) =>
            LET prev == requests[r]
                next == requests[r + 1]
                calls == CallsOf(responses[r])
            IN  /\ Len(next) = Len(prev) + 1 + Len(calls)
                /\ SubSeq(next, 1, Len(prev)) = prev
                /\ next[Len(prev) + 1] = to_dict(AssistantOf(responses[r]))
                /\ \A k \in 1..Len(calls) :
                     /\ next[Len(prev) + 1 + k].role = Role.TOOL
                     /\ next[Len(prev) + 1 + k].tool_call_id = calls[k].id
                     /\ next[Len(prev) + 1 + k].name = calls[k].name

ExitLines == {"exit", " QUIT ", "Bye", "\tstop "}

\* an empty line and a line of blanks
BlankLines == {"", "  "}

\* C11: a line that is an exit keyword after trimming, in any letter case,
\* ends the loop without appending a message and without a completion
\* request; an empty or whitespace-only line appends nothing, sends nothing
\* and leaves the loop at its prompt.
C11_ExitAndBlankLines ==
    [][ /\ \A l \in ExitLines :
             ReadLine(l) => /\ pc' = "ended"
                            /\ messages' = messages
                            /\ requests' = requests
        /\ \A l \in BlankLines :
             ReadLine(l) => /\ pc' = "input"
                            /\ messages' = messages
                            /\ requests' = requests
        /\ pc = "ended" => requests' = requests /\ messages' = messages ]_vars

\* the loop was left on an exit keyword
C11_Witness == pc = "ended" /\ out = "Goodbye!" /\ exit_status = Exited(0)

(***************************************************************************)
(* The order of a turn in the session loop.                                *)
(***************************************************************************)
\* the lines that are neither blank nor an exit keyword
TextLines == UserInputs \ (ExitLines \cup BlankLines)

\* a turn is under way: its user message is appended and the driver has not
\* yet appended an answer or reported an error
InTurn == pc \in {"call", "await", "tools", "returned", "raised"}

\* C12: for a line that is neither blank nor an exit keyword the driver
\* first appends a user message, then calls get_completion (whose first
\* request already carries that message), then appends the returned
\* assistant message: after a successful turn the conversation ends with
\* that assistant message, and the turn's user message precedes everything
\* appended during the turn.
C12_UserThenCompletionThenAssistant ==
    [][ /\ \A l \in TextLines :
             ReadLine(l) =>
                 /\ messages' = Append(messages, Message(Role.USER, l, NoList, None, None))
                 /\ requests' = requests
                 /\ pc' = "call"
        /\ (pc = "call" /\ Len(requests) = reqAtCall) =>
                 /\ Last(messages).role = Role.USER
                 /\ requests' = Append(requests, SerializeAll(messages))
        /\ InTurn =>
                 /\ IsPrefix(turnStart, messages)
                 /\ Len(messages) > Len(turnStart)
                 /\ messages[Len(turnStart) + 1].role = Role.USER
                 /\ \A k \in (Len(turnStart) + 2)..Len(messages) :
                      messages[k].role \in {Role.AI, Role.TOOL}
        /\ (pc = "returned" /\ pc' = "input") =>
                 /\ messages' = Append(messages, ai_response)
                 /\ Last(messages') = AssistantOf(Last(responses))
                 /\ requests' = requests ]_vars

\* a turn with a tool round has succeeded: user message, assistant request,
\* tool result, final assistant message
C12_Witness ==
    /\ pc = "input"
    /\ Len(messages) >= 5
    /\ messages[2].role = Role.USER
    /\ Last(messages).role = Role.AI
    /\ out = "Assistant: Hello"

(***************************************************************************)
(* Start of the program without an API key.                                *)
(***************************************************************************)
\* C16: when the API key is absent from the environment the program exits
\* with a non-zero status before the session loop starts, and no completion
\* request is ever sent.
C16_NoKeyNoSession ==
    API_KEY = None =>
        /\ pc \in {"start", "exited"}
        /\ pc = "exited" => exit_status # Running /\ exit_status # Exited(0)
        /\ pc = "start" => exit_status = Running
        /\ requests = <<>>
        /\ messages = <<>>

\* the program has exited for want of a key
C16_Witness ==
    /\ API_KEY = None
    /\ pc = "exited"
    /\ exit_status = Exited(1)
    /\ out = "Error: DIAL_API_KEY environment variable is not set!"

(***************************************************************************)
(* What get_completion does to the conversation it is given.               *)
(***************************************************************************)
\* the conversation the driver handed to get_completion in this turn: the
\* messages from before the turn and the turn's user message
TopEntry == SubSeq(messages, 1, Len(turnStart) + 1)

\* the number of messages the tool rounds answered by responses from..to
\* append: one assistant message and one tool result per tool call
RECURSIVE RoundsLen(_, _)
RoundsLen(from, to) ==
    IF from > to THEN 0
    ELSE 1 + Len(CallsOf(responses[to])) + RoundsLen(from, to - 1)

\* the messages of the round answered by response r start right after
\* those of the rounds before it
RoundAt(r) == Len(TopEntry) + RoundsLen(reqAtCall + 1, r - 1)

\* the conversation when get_completion returns: the entry conversation,
\* then round by round the assistant message and its tool results
ReturnedShape ==
    /\ SerializeAll(TopEntry) = requests[reqAtCall + 1]
    /\ Len(messages) = Len(TopEntry) + RoundsLen(reqAtCall + 1, Len(responses) - 1)
    /\ \A r \in (reqAtCall + 1)..(Len(responses) - 1) :
         /\ messages[RoundAt(r) + 1] = AssistantOf(responses[r])
         /\ \A j \in 1..Len(CallsOf(responses[r])) :
              /\ messages[RoundAt(r) + 1 + j].role = Role.TOOL
              /\ messages[RoundAt(r) + 1 + j].tool_call_id = CallsOf(responses[r])[j].id
              /\ messages[RoundAt(r) + 1 + j].name = CallsOf(responses[r])[j].name
    /\ ai_response = AssistantOf(Last(responses))
    /\ Last(messages) # ai_response

\* C18: get_completion only appends to the conversation: at every step of a
\* call the conversation before the step is a prefix of the one after it,
\* and so is the conversation at call entry; when the call returns after k
\* tool rounds the conversation is the entry conversation followed, round
\* by round, by the round's assistant message and its tool-result messages
\* (one per tool call, in order), and nothing else: the returned final
\* message is not in it.
C18_AppendOnly ==
    [][ /\ pc \in {"call", "await", "tools"} =>
             /\ IsPrefix(messages, messages')
             /\ IsPrefix(entry', messages')
             /\ turnStart' = turnStart
             /\ IsPrefix(TopEntry, messages')
        /\ pc' = "returned" => ReturnedShape' ]_vars

\* get_completion has returned after a round of two tool calls
C18_Witness ==
    /\ pc = "returned"
    /\ Len(requests) = reqAtCall + 2
    /\ Len(messages) = Len(turnStart) + 4
    /\ messages[Len(messages) - 1].role = Role.TOOL
    /\ Last(messages).role = Role.TOOL

(***************************************************************************)
(* The finish reason decides whether tools run.                            *)
(***************************************************************************)
\* the step receives a 200 response
Received == Len(responses') = Len(responses) + 1 /\ Last(responses').status = 200

\* C19 (as claimed): tools run if and only if the finish reason is
\* "tool_calls": a response that carries tool_calls with another finish
\* reason is returned as the final message, no tool runs and nothing is
\* appended; a response with finish reason "tool_calls" (and a list of tool
\* calls) leads to the tool step and from there, unless the user interrupts,
\* to a further completion request.
C19_ToolsIffFinishReason ==
    [][ /\ (Received /\ Last(responses').finish_reason # "tool_calls") =>
             /\ pc' = "returned"
             /\ ai_response' = AssistantOf(Last(responses'))
             /\ messages' = messages
             /\ toolLog' = toolLog
        /\ (Received /\ Last(responses').finish_reason = "tool_calls") =>
             pc' = "tools"
        /\ toolLog' # toolLog =>
             pc = "tools" /\ Last(responses).finish_reason = "tool_calls"
        /\ (pc = "tools" /\ Last(responses).tool_calls # NoList) =>
             \/ pc' = "tools"
             \/ pc' = "call"
             \/ pc' = "ended" /\ out' = "Interrupted. Goodbye!" ]_vars

(***************************************************************************)
(* Tool requests and their results in the conversation.                    *)
(***************************************************************************)
\* get_completion has ended and control is back in the driver
BackInDriver == pc \in {"returned", "raised", "input"}

\* the assistant message at position k is followed by one tool result for
\* each of its tool calls
Answered(k) ==
    LET calls == messages[k].tool_calls[1] IN
    /\ Len(messages) >= k + Len(calls)
    /\ \A j \in 1..Len(calls) :
         /\ messages[k + j].role = Role.TOOL
         /\ messages[k + j].tool_call_id = calls[j].id

\* C20 (as claimed): whenever get_completion has ended, by return or by
\* error, and control is back in the driver, every assistant message of the
\* conversation that lists tool calls is immediately followed by one
\* tool-result message for each of its tool calls.
C20_NoUnansweredToolRequest ==
    BackInDriver =>
        \A k \in 1..Len(messages) :
            (messages[k].role = Role.AI /\ messages[k].tool_calls # NoList) => Answered(k)

(***************************************************************************)
(* The tools on their own.                                                 *)
(***************************************************************************)
\* the string s starts with p
StartsWith(s, p) == Len(s) >= Len(p) /\ SubSeq(s, 1, Len(p)) = p

\* C13 (as claimed): every tool's execute returns a string and never
\* raises, for every argument mapping and every behaviour of the
\* downstream service or network.
C13_ExecuteReturnsString ==
    probe.op = "execute" =>
        /\ probe.outcome.exc = None
        /\ probe.outcome.value # None

\* C14: add_user, given arguments that lack one of name, surname, email,
\* about_me, returns an error string describing the invalid data and makes
\* no call to the user-data service.
C14_CreateValidatesBeforeService ==
    ( /\ probe.op = "execute"
      /\ probe.tool = "CreateUserTool"
      /\ \E k \in {"name", "surname", "email", "about_me"} : probe.arguments[k] = None )
    => /\ probe.outcome.exc = None
       /\ StartsWith(probe.outcome.value, "Error: Invalid user data - ")
       /\ probe.outcome.calls = <<>>

\* add_user was run on {"name": "A"} while the service is up
C14_Witness ==
    /\ probe.op = "execute"
    /\ probe.tool = "CreateUserTool"
    /\ probe.arguments = [NoArgs EXCEPT !["name"] = "A"]
    /\ probe.svc = "ok"
    /\ probe.outcome.calls = <<>>

\* the arguments hold an id and a new_info that is an object with fields
\* of the right types
UpdateArgumentsValid(arguments) ==
    /\ arguments["id"] \in {"42", "7"}
    /\ arguments["new_info"] \in {"{}", "{\"email\": \"ann@example.org\"}"}

\* C15 (as claimed): update_user checks that id and new_info are present
\* and that new_info has the right types before it calls the user-data
\* service: for an input that fails the check it returns a descriptive
\* error string and makes no service call.
C15_UpdateValidatesBeforeService ==
    ( /\ probe.op = "execute"
      /\ probe.tool = "UpdateUserTool"
      /\ ~UpdateArgumentsValid(probe.arguments) )
    => /\ probe.outcome.exc = None
       /\ StartsWith(probe.outcome.value, "Error")
       /\ probe.outcome.calls = <<>>

(***************************************************************************)
(* The registry of a client.                                               *)
(***************************************************************************)
\* C17 (as claimed): for any list of tools given to the client the names
\* are unique in the registry: the advertised schema list holds each name
\* at most once, and dispatching a name runs the tool whose schema was
\* advertised under that name.
C17_NamesUnique ==
    probe.op = "register" =>
        /\ \A i, j \in 1..Len(probe.schemas) :
             probe.schemas[i] = probe.schemas[j] => i = j
        /\ \A k \in 1..Len(probe.schemas) :
             /\ probe.schemas[k] \in DOMAIN probe.dict
             /\ probe.dict[probe.schemas[k]] = probe.tools[k]
        /\ \A n \in DOMAIN probe.dict :
             \E k \in 1..Len(probe.schemas) : probe.schemas[k] = n

(***************************************************************************)
(* The tool results of a round reach the conversation together.            *)
(***************************************************************************)
\* the tool step is at a tool call whose processing raises
RaisesInToolStep == pc = "tools" /\ pc' = "raised"

\* C21: the tool-result messages of a round are appended to the
\* conversation all together, only after every tool call of the round has
\* been processed: while the round's calls are processed the conversation
\* ends with the round's assistant message and does not change, each
\* processed call of a registered tool has run its tool, and if processing
\* the i-th call raises, the tools of calls 1..i-1 have run and stay run
\* but none of the round's tool-result messages is in the conversation.
C21_ResultsAppendedTogether ==
    [][ /\ pc = "tools" =>
             /\ messages = Append(entry, ai_response)
             /\ \/ messages' = messages
                \/ /\ pc' = "call"
                   /\ Len(tool_messages) = Len(CallsOf(Last(responses)))
                   /\ messages' = messages \o tool_messages
        /\ (pc = "tools" /\ Len(tool_messages') = Len(tool_messages) + 1) =>
             LET tool_call == CallsOf(Last(responses))[Len(tool_messages) + 1] IN
             /\ messages' = messages
             /\ IF tool_call.name \in {tool_name(tools[k]) : k \in 1..Len(tools)}
                  THEN /\ Len(toolLog') = Len(toolLog) + 1
                       /\ tool_name(Last(toolLog').tool) = tool_call.name
                       /\ Last(toolLog').result = Last(tool_messages').content
                  ELSE toolLog' = toolLog
        /\ RaisesInToolStep =>
             /\ toolLog' = toolLog
             /\ tool_messages' = tool_messages
             /\ messages' = Append(entry, ai_response)
             /\ Last(messages').role = Role.AI ]_vars

\* the second call of a round raised after the tool of the first had run:
\* the conversation ends with the assistant message, the one tool result
\* that was produced is not in it
C21_Witness ==
    /\ pc = "raised"
    /\ exception = "JSONDecodeError"
    /\ Len(tool_messages) = 1
    /\ Len(toolLog) >= 1
    /\ Last(toolLog).result = tool_messages[1].content
    /\ Last(messages) = ai_response
    /\ Len(CallsOf(Last(responses))) = 2

====
